---- MODULE Spec2Model ----
(***************************************************************************)
(* Model of github.py: the three memoized GitHub fetchers (get_user,       *)
(* list_user_repos, get_readme), the tabulator make_repo_dataframe and the *)
(* Streamlit script that drives them.                                      *)
(*                                                                         *)
(* The specifications share the variables:                                 *)
(*   Spec      the three fetchers called directly, in any order;           *)
(*   ListSpec  list_user_repos called with every per_page (ListLiveSpec    *)
(*             adds that every request is sent and answered);              *)
(*   AppSpec   reruns of the Streamlit script (lines 97-206);              *)
(*   TabSpec   make_repo_dataframe applied to arbitrary repository lists.  *)
(***************************************************************************)
EXTENDS Integers, Sequences, FiniteSets, TLC

VARIABLES
    clock,      \* the cache timer (seconds)
    nrepos,     \* server: number of repositories the existing user owns
    cache,      \* st.cache_data: per function, key -> [value, t]
    fetched,    \* history: per function, key -> last successful execution of the body
    pc,         \* position inside list_user_repos: "idle", "request", "await"
    call,       \* arguments and start time of the list_user_repos call in flight
    page,       \* list_user_repos local `page`
    repos,      \* list_user_repos local `repos`
    requests,   \* the requests.get calls of the current (or last) fetcher call
    responses,  \* what came back for each of them
    result,     \* outcome of the last fetcher call that completed
    script,     \* position of the Streamlit script run
    user,       \* the script's `user`, the profile get_user returned
    message,    \* what the script last showed: st.info, st.error, st.warning
    session,    \* st.session_state["searched_user"] and the raw_readme checkbox
    listing,    \* the argument `repos` of the last make_repo_dataframe call
    df          \* the DataFrame it returned

vars == <<clock, nrepos, cache, fetched, pc, call, page, repos, requests,
          responses, result, script, user, message, session, listing, df>>

fetchVars == <<clock, nrepos, cache, fetched, pc, call, page, repos, requests,
               responses, result>>

-----------------------------------------------------------------------------
(* Bounds of the model *)

MaxRepos == 3       \* the server holds at most this many repositories
MaxPerPage == 2     \* per_page arguments tried: 1..MaxPerPage
MaxClock == 400     \* the timer stops advancing here
MaxRows == 3        \* longest list handed to make_repo_dataframe in TabSpec

(* Program constants *)

TTL == 300              \* @st.cache_data(ttl=300)
DefaultPerPage == 100   \* per_page: int = 100

None == "None"          \* Python's None

-----------------------------------------------------------------------------
(* Python strings as sequences of code points; "2023-01-01" and friends.   *)

Ts2022 == <<50, 48, 50, 50, 45, 48, 49, 45, 48, 49>>   \* "2022-01-01"
Ts2023 == <<50, 48, 50, 51, 45, 48, 49, 45, 48, 49>>   \* "2023-01-01"
Ts2024 == <<50, 48, 50, 52, 45, 48, 49, 45, 48, 49>>   \* "2024-01-01"

Timestamps == {Ts2022, Ts2023, Ts2024}

(* a < b for Python str: the first differing code point decides, a proper  *)
(* prefix is smaller.                                                      *)
RECURSIVE StrLess(_, _)
StrLess(a, b) ==
    IF b = <<>> THEN FALSE
    ELSE IF a = <<>> THEN TRUE
    ELSE IF Head(a) # Head(b) THEN Head(a) < Head(b)
    ELSE StrLess(Tail(a), Tail(b))

(* dict.get(key, default) *)
Get(r, key, default) == IF key \in DOMAIN r THEN r[key] ELSE default

-----------------------------------------------------------------------------
(* make_repo_dataframe, lines 76-94 *)

(* One element of `rows` (lines 79-90); `index` is the label pandas gives  *)
(* the row, its position in `rows`.                                        *)
Row(r, i) ==
    [index       |-> i,
     name        |-> Get(r, "name", None),
     description |-> Get(r, "description", None),
     language    |-> Get(r, "language", None),
     stars       |-> Get(r, "stargazers_count", 0),
     forks       |-> Get(r, "forks_count", 0),
     updated_at  |-> Get(r, "updated_at", None),
     html_url    |-> Get(r, "html_url", None),
     private     |-> Get(r, "private", FALSE)]

(* pd.DataFrame(rows), lines 77-91 *)
DataFrame(rs) == [i \in 1..Len(rs) |-> Row(rs[i], i - 1)]

PrecedesStarsOnly(a, b) == a.stars > b.stars

PrecedesOrTies(a, b) ==
    \/ a.stars > b.stars
    \/ a.stars = b.stars /\ ~StrLess(a.updated_at, b.updated_at)

(* by=["stars", "updated_at"], ascending=[False, False]: row a sorts       *)
(* strictly before row b.                                                  *)
Precedes(a, b) ==
    \/ a.stars > b.stars
    \/ a.stars = b.stars /\ StrLess(b.updated_at, a.updated_at)

(* Put row x, which came after every row of the sorted s, in its place:    *)
(* behind the rows it does not strictly precede (np.lexsort is stable).    *)
RECURSIVE InsertRow(_, _)
InsertRow(s, x) ==
    IF s = <<>> THEN <<x>>
    ELSE IF Precedes(x, Head(s)) THEN <<x>> \o s
    ELSE <<Head(s)>> \o InsertRow(Tail(s), x)

RECURSIVE SortFrom(_, _)
SortFrom(sorted, rest) ==
    IF rest = <<>> THEN sorted
    ELSE SortFrom(InsertRow(sorted, Head(rest)), Tail(rest))

(* df.sort_values(by=["stars", "updated_at"], ascending=[False, False]) *)
sort_values(frame) == SortFrom(<<>>, frame)

RECURSIVE DropRepeatedKeys(_)
DropRepeatedKeys(frame) ==
    IF frame = <<>> THEN <<>>
    ELSE LET rest == DropRepeatedKeys(Tail(frame))
         IN  IF \E j \in 1..Len(rest) :
                    /\ rest[j].stars = Head(frame).stars
                    /\ rest[j].updated_at = Head(frame).updated_at
             THEN rest
             ELSE <<Head(frame)>> \o rest

make_repo_dataframe_dedup(rs) == sort_values(DropRepeatedKeys(DataFrame(rs)))

make_repo_dataframe(rs) ==
    LET frame == DataFrame(rs)
    IN  IF frame # <<>> THEN sort_values(frame) ELSE frame

-----------------------------------------------------------------------------
(* The GitHub server, as the fetchers see it *)

Existing == "octocat"               \* the one account the server knows
Users == {"octocat", "nobody"}

Statuses == {"ok", "HTTPError", "ConnectionError"}

(* Repository number i of the existing user, as the JSON object of the API *)
Repo(i) ==
    [name             |-> i,
     stargazers_count |-> 5 * (i % 2),
     updated_at       |-> IF i = 1 THEN Ts2022 ELSE IF i = 2 THEN Ts2023 ELSE Ts2024]

(* The user's repositories under sort=updated: the newest first *)
ServerList(u) ==
    IF u = Existing THEN [i \in 1..nrepos |-> Repo(nrepos - i + 1)] ELSE <<>>

Min(a, b) == IF a < b THEN a ELSE b

(* GET /users/{u}/repos?per_page=pp&page=k *)
ServerPage(u, pp, k) ==
    LET all  == ServerList(u)
        from == (k - 1) * pp + 1
        to   == Min(k * pp, Len(all))
    IN  IF from > to THEN <<>> ELSE SubSeq(all, from, to)

(* What a request about user u can be answered with: an unknown user is a  *)
(* 404, and the network can fail for anyone.                               *)
Answers(u) == IF u = Existing THEN Statuses ELSE Statuses \ {"ok"}

Profile(u) == [login |-> u, public_repos |-> nrepos]

(* The README of a repository; in the JSON payload it travels wrapped in   *)
(* its base64 encoding, which b64decode takes off again.                   *)
ReadmeText(repo) == <<"# README of", repo>>
B64Encode(text) == [b64 |-> text]
B64Decode(content) == content.b64

(* GET /repos/{owner}/{repo}/readme: a repository that does not exist, or  *)
(* has no README, is a 404.                                                *)
ReadmeAnswers(owner, repo, raw) ==
    (IF owner = Existing /\ repo \in 1..nrepos THEN Statuses ELSE Statuses \ {"ok"})
    \cup (IF ~raw /\ owner = Existing /\ repo \in 1..nrepos THEN {"BadContent"} ELSE {})

-----------------------------------------------------------------------------
(* st.cache_data(ttl=300), lines 25, 34, 54: one cache per function, keyed *)
(* by the arguments, an entry good while timer() < insertion time + ttl.   *)

Functions == {"get_user", "list_user_repos", "get_readme"}

EmptyCache == [f \in Functions |-> <<>>]

FreshForever(fn, key) == key \in DOMAIN cache[fn]

Fresh(fn, key) ==
    /\ key \in DOMAIN cache[fn]
    /\ clock < cache[fn][key].t + TTL

UserKey(u) == <<u>>
ListKey(u, pp) == <<u, pp>>
ReadmeKey(owner, repo, raw) == <<owner, repo, raw>>

(* The last execution of fn's body with these arguments that returned *)
Prev(fn, args) == IF args \in DOMAIN fetched[fn] THEN <<fetched[fn][args]>> ELSE <<>>

(* The outcome of a completed call of fn(args), looked up under key *)
Outcome(fn, args, key, kind, value, exc, start) ==
    [fn |-> fn, args |-> args, key |-> key, kind |-> kind, value |-> value,
     exc |-> exc, start |-> start, prev |-> Prev(fn, args)]

NoResult ==
    [fn |-> "none", args |-> <<>>, key |-> <<>>, kind |-> "none", value |-> None,
     exc |-> None, start |-> 0, prev |-> <<>>]

(* A call answered from the cache: the function body does not run *)
Cached(fn, args, key) ==
    Outcome(fn, args, key, "return", cache[fn][key].value, None, clock)

Put(store, fn, key, entry) ==
    [store EXCEPT ![fn] = (key :> entry) @@ store[fn]]

(* The cache after a call: the value a body returned is stored with the    *)
(* time of the store; an exception stores nothing.                         *)
Stored(res, ran) ==
    IF ran /\ res.kind = "return"
    THEN Put(cache, res.fn, res.key, [value |-> res.value, t |-> clock])
    ELSE cache

Recorded(res, ran) ==
    IF ran /\ res.kind = "return"
    THEN Put(fetched, res.fn, res.args, [value |-> res.value, t |-> clock])
    ELSE fetched

Request(endpoint, k) == [endpoint |-> endpoint, page |-> k]

NoCall == [username |-> None, per_page |-> 0, start |-> 0]

-----------------------------------------------------------------------------
(* The fetchers, lines 25-73 *)

ExceptionUnchecked(status) == IF status = "ConnectionError" THEN status ELSE None

(* What requests.get and r.raise_for_status() raise on the server's        *)
(* answer: requests.get raises ConnectionError itself, raise_for_status    *)
(* raises HTTPError on a 4xx/5xx status; None when neither raises.         *)
Exception(status) ==
    IF status \in {"HTTPError", "ConnectionError"} THEN status ELSE None

Answer(status, size) == [status |-> status, size |-> size]

(* The body of get_user, lines 28-31 *)
get_user(u, status) ==
    IF Exception(status) # None
    THEN Outcome("get_user", <<u>>, UserKey(u), "raise", None, Exception(status), clock)
    ELSE Outcome("get_user", <<u>>, UserKey(u), "return", Profile(u), None, clock)

(* A call of the memoized get_user *)
GetUserStep(u, status) ==
    /\ pc = "idle"
    /\ status \in Answers(u)
    /\ LET key == UserKey(u)
           hit == Fresh("get_user", key)
           res == IF hit THEN Cached("get_user", <<u>>, key) ELSE get_user(u, status)
       IN  /\ result' = res
           /\ cache' = Stored(res, ~hit)
           /\ fetched' = Recorded(res, ~hit)
           /\ requests' = IF hit THEN <<>> ELSE <<Request("users", 0)>>
           /\ responses' = IF hit THEN <<>> ELSE <<Answer(status, 0)>>
    /\ UNCHANGED <<clock, nrepos, pc, call, page, repos>>

(* The body of get_readme, lines 61-73 *)
get_readme(owner, repo, raw, status) ==
    LET args == <<owner, repo, raw>>
        key  == ReadmeKey(owner, repo, raw)
        data == [content |-> B64Encode(ReadmeText(repo))]
    IN  IF Exception(status) # None
        THEN Outcome("get_readme", args, key, "raise", None, Exception(status), clock)
        ELSE IF raw
        THEN Outcome("get_readme", args, key, "return", ReadmeText(repo), None, clock)
        ELSE IF status = "BadContent"
        THEN Outcome("get_readme", args, key, "raise", None, "binascii.Error", clock)
        ELSE Outcome("get_readme", args, key, "return", B64Decode(data.content), None,
                     clock)

(* A call of the memoized get_readme *)
GetReadmeStep(owner, repo, raw, status) ==
    /\ pc = "idle"
    /\ status \in ReadmeAnswers(owner, repo, raw)
    /\ LET key == ReadmeKey(owner, repo, raw)
           hit == Fresh("get_readme", key)
           res == IF hit THEN Cached("get_readme", <<owner, repo, raw>>, key)
                  ELSE get_readme(owner, repo, raw, status)
       IN  /\ result' = res
           /\ cache' = Stored(res, ~hit)
           /\ fetched' = Recorded(res, ~hit)
           /\ requests' = IF hit THEN <<>> ELSE <<Request("readme", 0)>>
           /\ responses' = IF hit THEN <<>> ELSE <<Answer(status, 0)>>
    /\ UNCHANGED <<clock, nrepos, pc, call, page, repos>>

(* list_user_repos, lines 34-51.  The call is answered from the cache, or  *)
(* the body starts: repos = [], page = 1.                                  *)
ListUserReposStep(u, pp) ==
    /\ pc = "idle"
    /\ LET key == ListKey(u, pp)
       IN  IF Fresh("list_user_repos", key)
           THEN /\ result' = Cached("list_user_repos", <<u, pp>>, key)
                /\ UNCHANGED <<pc, call>>
           ELSE /\ result' = NoResult
                /\ pc' = "request"
                /\ call' = [username |-> u, per_page |-> pp, start |-> clock]
    /\ page' = 1
    /\ repos' = <<>>
    /\ requests' = <<>>
    /\ responses' = <<>>
    /\ UNCHANGED <<clock, nrepos, cache, fetched>>

(* Line 42: requests.get for the current page is sent *)
RequestPageStep ==
    /\ pc = "request"
    /\ requests' = Append(requests, Request("repos", page))
    /\ pc' = "await"
    /\ UNCHANGED <<clock, nrepos, cache, fetched, call, page, repos, responses, result>>

ExtendedLosingEarlier(acc, batch) == batch

(* Line 47: repos.extend(batch) *)
Extended(acc, batch) == acc \o batch

ContinuesWhileNonEmpty(batch, pp) == batch # <<>>

(* Lines 45-49: the loop goes on to another page unless the batch is empty *)
(* or shorter than per_page.                                               *)
Continues(batch, pp) == batch # <<>> /\ ~(Len(batch) < pp)

NextPageSkipping(p) == p + 2

(* Line 50: page += 1 *)
NextPage(p) == p + 1

(* list_user_repos ends: it returns (and the cache stores the value) or it *)
(* raises; its locals are gone.                                            *)
ListDone(kind, value, exc) ==
    LET res == Outcome("list_user_repos", <<call.username, call.per_page>>,
                       ListKey(call.username, call.per_page), kind, value, exc,
                       call.start)
    IN  /\ result' = res
        /\ cache' = Stored(res, TRUE)
        /\ fetched' = Recorded(res, TRUE)
        /\ pc' = "idle"
        /\ call' = NoCall
        /\ page' = 1
        /\ repos' = <<>>

(* Lines 42-50: the response of the current page arrives *)
ReceivePageStep(status) ==
    /\ pc = "await"
    /\ status \in Answers(call.username)
    /\ LET batch == ServerPage(call.username, call.per_page, page)
           acc   == IF batch = <<>> THEN repos ELSE Extended(repos, batch)
       IN  IF Exception(status) # None
           THEN /\ responses' = Append(responses, Answer(status, 0))
                /\ ListDone("raise", None, Exception(status))
           ELSE /\ responses' = Append(responses, Answer(status, Len(batch)))
                /\ IF Continues(batch, call.per_page)
                   THEN /\ repos' = acc
                        /\ page' = NextPage(page)
                        /\ pc' = "request"
                        /\ UNCHANGED <<cache, fetched, call, result>>
                   ELSE ListDone("return", acc, None)
    /\ UNCHANGED <<clock, nrepos, requests>>

(* Time passes, also while a call waits for a response: two thirds of the  *)
(* TTL at a time, so that entries are seen at the ages 200 s and 400 s.    *)
Elapse == (2 * TTL) \div 3

TickStep ==
    /\ clock + Elapse <= MaxClock
    /\ clock' = clock + Elapse
    /\ UNCHANGED <<nrepos, cache, fetched, pc, call, page, repos, requests,
                   responses, result>>

-----------------------------------------------------------------------------
(* Spec: the fetchers called as a library *)

appVars == <<script, user, message, session, listing, df>>

NoSession == [searched_user |-> "", raw_readme |-> TRUE, click |-> 0]

Init ==
    /\ clock = 0
    /\ nrepos \in 0..MaxRepos
    /\ cache = EmptyCache
    /\ fetched = EmptyCache
    /\ pc = "idle"
    /\ call = NoCall
    /\ page = 1
    /\ repos = <<>>
    /\ requests = <<>>
    /\ responses = <<>>
    /\ result = NoResult
    /\ script = "none"
    /\ user = None
    /\ message = "none"
    /\ session = NoSession
    /\ listing = <<>>
    /\ df = <<>>

CallGetUser(u, status) == GetUserStep(u, status) /\ UNCHANGED appVars

CallListUserRepos(u, pp) == ListUserReposStep(u, pp) /\ UNCHANGED appVars

RequestPage == RequestPageStep /\ UNCHANGED appVars

ReceivePage(status) == ReceivePageStep(status) /\ UNCHANGED appVars

CallGetReadme(owner, repo, raw, status) ==
    GetReadmeStep(owner, repo, raw, status) /\ UNCHANGED appVars

Tick == TickStep /\ UNCHANGED appVars

(* Any caller: every fetcher, any arguments, list_user_repos with its      *)
(* default per_page as the script calls it.                                *)
Next ==
    \/ \E u \in Users, status \in Statuses : CallGetUser(u, status)
    \/ \E u \in Users : CallListUserRepos(u, DefaultPerPage)
    \/ RequestPage
    \/ \E status \in Statuses : ReceivePage(status)
    \/ \E owner \in Users, raw \in BOOLEAN, status \in Statuses \cup {"BadContent"} :
            CallGetReadme(owner, 1, raw, status)
    \/ Tick

Spec == Init /\ [][Next]_vars

(* ListSpec: list_user_repos alone, with every per_page *)
ListNext ==
    \/ \E u \in Users, pp \in 1..MaxPerPage : CallListUserRepos(u, pp)
    \/ RequestPage
    \/ \E status \in Statuses : ReceivePage(status)
    \/ Tick

ListSpec == Init /\ [][ListNext]_vars

(* ListLiveSpec: the same, with every request sent and every response     *)
(* delivered in the end (each request is answered, by a page or an error). *)
ListLiveSpec ==
    /\ ListSpec
    /\ WF_vars(RequestPage)
    /\ WF_vars(\E status \in Statuses : ReceivePage(status))

-----------------------------------------------------------------------------
(* Properties of list_user_repos *)

ListReturned ==
    /\ pc = "idle"
    /\ result.fn = "list_user_repos"
    /\ result.kind = "return"

(* The body ran (the call was not answered from the cache) and returned *)
ListRanAndReturned == ListReturned /\ requests # <<>>

(* C1: a list_user_repos call whose requests all succeed returns the       *)
(* server's list, every repository exactly once and in server order; the   *)
(* pages it read are all full except the last one, which is the first page *)
(* shorter than per_page.                                                  *)
C1_ReturnsAllPagesInOrder ==
    ListRanAndReturned =>
        LET u  == result.args[1]
            pp == result.args[2]
            n  == Len(requests)
        IN  /\ result.value = ServerList(u)
            /\ \A i, j \in 1..Len(result.value) :
                    i # j => result.value[i].name # result.value[j].name
            /\ Len(responses) = n
            /\ \A i \in 1..n : responses[i].status = "ok"
            /\ \A i \in 1..(n - 1) : responses[i].size = pp
            /\ responses[n].size < pp

C1_Witness ==
    /\ ListRanAndReturned
    /\ Len(requests) >= 2
    /\ Len(result.value) = 3
    /\ responses[Len(responses)].size = 1

(* C2: a page is requested only when every earlier request of the call has *)
(* been answered; the first request is for page 1 and each further one for *)
(* the next page, after a page of exactly per_page elements.               *)
C2_RequestsSequentialConsecutive ==
    [][Len(requests') > Len(requests) =>
        /\ Len(requests') = Len(requests) + 1
        /\ SubSeq(requests', 1, Len(requests)) = requests
        /\ Len(responses) = Len(requests)
        /\ requests'[Len(requests')].page = Len(requests) + 1
        /\ requests # <<>> =>
                /\ responses[Len(responses)].status = "ok"
                /\ responses[Len(responses)].size = call.per_page]_vars

C2_Witness ==
    /\ pc = "await"
    /\ Len(requests) = 3
    /\ requests[3].page = 3
    /\ Len(responses) = 2

Quotient(u, pp) == Len(ServerList(u)) \div pp

C3_RequestCount ==
    /\ pc # "idle" => Len(requests) <= Quotient(call.username, call.per_page) + 1
    /\ ListRanAndReturned =>
            Len(requests) = Quotient(result.args[1], result.args[2]) + 1

(* C3: list_user_repos issues at most floor(R / per_page) + 1 requests,    *)
(* exactly that many when it returns, and a call in flight always ends.    *)
C3_TerminatesAfterQuotientPlusOne ==
    /\ []C3_RequestCount
    /\ (pc # "idle") ~> (pc = "idle")

C3_Witness ==
    /\ ListRanAndReturned
    /\ nrepos = 3
    /\ result.args = <<Existing, 2>>
    /\ Len(requests) = 2
    /\ responses[1].size = 2
    /\ responses[2].size = 1
    /\ Len(result.value) = 3

ListFailed ==
    /\ responses # <<>>
    /\ responses[Len(responses)].status # "ok"

(* C4: when the request for a page fails, the call ends by raising: no     *)
(* list is returned, the failed page was the last request (no retry, no    *)
(* later page) and the cache holds nothing from this call.                 *)
C4_FailedPageRaises ==
    ListFailed =>
        /\ pc = "idle"
        /\ result.fn = "list_user_repos"
        /\ result.kind = "raise"
        /\ result.exc = responses[Len(responses)].status
        /\ Len(requests) = Len(responses)
        /\ \A i \in 1..Len(requests) : requests[i].page = i
        /\ result.key \in DOMAIN cache["list_user_repos"] =>
                /\ result.prev # <<>>
                /\ cache["list_user_repos"][result.key] = result.prev[1]

C4_Witness ==
    /\ ListFailed
    /\ Len(responses) = 2
    /\ responses[1].size = 2
    /\ result.kind = "raise"
    /\ result.key \notin DOMAIN cache["list_user_repos"]

-----------------------------------------------------------------------------
(* Properties of the memoization *)

CallCompleted == pc = "idle" /\ result.fn # "none"

(* The cache holds only what an execution of the body returned *)
CacheHoldsReturnedValues ==
    \A fn \in Functions : \A key \in DOMAIN cache[fn] :
        /\ key \in DOMAIN fetched[fn]
        /\ cache[fn][key] = fetched[fn][key]

(* C9: a call of a fetcher, measured against the last execution of its     *)
(* body with the same arguments that returned (result.prev): less than TTL *)
(* seconds after it, the call sends no request and returns that value;     *)
(* more than TTL seconds after it, or with no such execution (only failed  *)
(* calls, or calls with other arguments, came before), it sends a request; *)
(* a call that raised sent one; the cache holds returned values only.      *)
C9_MemoizedForTTL ==
    /\ CacheHoldsReturnedValues
    /\ CallCompleted =>
        /\ (result.prev # <<>> /\ result.start - result.prev[1].t < TTL) =>
                /\ requests = <<>>
                /\ result.kind = "return"
                /\ result.value = result.prev[1].value
        /\ (result.prev # <<>> /\ result.start - result.prev[1].t > TTL) =>
                requests # <<>>
        /\ result.prev = <<>> => requests # <<>>
        /\ result.kind = "raise" => requests # <<>>

(* get_readme(raw=False) answered from the cache while the raw=True entry  *)
(* of the same repository is in the cache too                              *)
C9_Witness ==
    /\ CallCompleted
    /\ result.fn = "get_readme"
    /\ result.args = <<Existing, 1, FALSE>>
    /\ requests = <<>>
    /\ result.start - result.prev[1].t = Elapse
    /\ <<Existing, 1, TRUE>> \in DOMAIN cache["get_readme"]
    /\ <<Existing>> \in DOMAIN cache["get_user"]
    /\ <<Existing, DefaultPerPage>> \in DOMAIN cache["list_user_repos"]

C9_WitnessExpired ==
    /\ CallCompleted
    /\ result.fn = "list_user_repos"
    /\ result.prev # <<>>
    /\ result.start - result.prev[1].t > TTL
    /\ requests # <<>>

-----------------------------------------------------------------------------
(* TabSpec: make_repo_dataframe on arbitrary listings *)

(* The repository objects tried: with and without a star count *)
InputRepos ==
    {[stargazers_count |-> st, updated_at |-> ts] : st \in {5, 10}, ts \in Timestamps}
    \cup {[updated_at |-> ts] : ts \in Timestamps}

(* A listing: repository i of it carries the name i, so that names are     *)
(* unique within a listing.                                                *)
Named(rs) == [i \in 1..Len(rs) |-> ("name" :> i) @@ rs[i]]

Listings == {Named(rs) : rs \in UNION {[1..n -> InputRepos] : n \in 0..MaxRows}}

TabInit ==
    /\ listing \in Listings
    /\ df = <<>>
    /\ script = "tabulate"
    /\ clock = 0
    /\ nrepos = 0
    /\ cache = EmptyCache
    /\ fetched = EmptyCache
    /\ pc = "idle"
    /\ call = NoCall
    /\ page = 1
    /\ repos = <<>>
    /\ requests = <<>>
    /\ responses = <<>>
    /\ result = NoResult
    /\ user = None
    /\ message = "none"
    /\ session = NoSession

(* Line 153: df = make_repo_dataframe(repos) *)
Tabulate ==
    /\ script = "tabulate"
    /\ df' = make_repo_dataframe(listing)
    /\ script' = "table"
    /\ UNCHANGED <<fetchVars, user, message, session, listing>>

(* Line 93 applied once more, to the table already produced *)
Resort ==
    /\ script \in {"table", "resorted"}
    /\ df' = IF df # <<>> THEN sort_values(df) ELSE df
    /\ script' = "resorted"
    /\ UNCHANGED <<fetchVars, user, message, session, listing>>

(* The next search: the listing has one more repository, at its head, and  *)
(* the table is made again from it.                                        *)
Retabulate(r) ==
    /\ script \in {"table", "resorted"}
    /\ Len(listing) < MaxRows
    /\ listing' = Named(<<r>> \o listing)
    /\ df' = make_repo_dataframe(listing')
    /\ script' = "table"
    /\ UNCHANGED <<fetchVars, user, message, session>>

TabNext ==
    \/ Tabulate
    \/ Resort
    \/ \E r \in InputRepos : Retabulate(r)

TabSpec == TabInit /\ [][TabNext]_vars

Tabulated == script \in {"table", "resorted"}

(* C5: adjacent rows of the table are in descending order of stars and,    *)
(* for equal stars, in descending order of updated_at (as strings).        *)
C5_SortedByStarsThenUpdated ==
    Tabulated =>
        \A i \in 1..(Len(df) - 1) :
            \/ df[i].stars > df[i + 1].stars
            \/ /\ df[i].stars = df[i + 1].stars
               /\ ~StrLess(df[i].updated_at, df[i + 1].updated_at)

(* The listing (5, 2023), (5, 2024), (10, 2022) comes out as 10, 5/2024,   *)
(* 5/2023.                                                                 *)
C5_Witness ==
    /\ Tabulated
    /\ Len(listing) = 3
    /\ \A i \in 1..3 : "stargazers_count" \in DOMAIN listing[i]
    /\ listing[1].stargazers_count = 5 /\ listing[1].updated_at = Ts2023
    /\ listing[2].stargazers_count = 5 /\ listing[2].updated_at = Ts2024
    /\ listing[3].stargazers_count = 10 /\ listing[3].updated_at = Ts2022
    /\ df[1].index = 2 /\ df[2].index = 1 /\ df[3].index = 0

(* C6: rows with the same stars and the same updated_at keep the order     *)
(* they had in the input.                                                  *)
C6_TiesKeepInputOrder ==
    Tabulated =>
        \A i, j \in 1..Len(df) :
            (/\ i < j
             /\ df[i].stars = df[j].stars
             /\ df[i].updated_at = df[j].updated_at) => df[i].index < df[j].index

C6_Witness ==
    /\ Tabulated
    /\ Len(df) = 3
    /\ df[1].stars = 10
    /\ df[2].stars = 5 /\ df[3].stars = 5
    /\ df[2].updated_at = df[3].updated_at
    /\ df[2].index = 0 /\ df[3].index = 1

(* C7: the table has one row per repository of the listing it was made     *)
(* from, each the projection of that repository, and nothing else; an      *)
(* empty listing gives an empty table.                                     *)
C7_RowsAreTheListing ==
    Tabulated =>
        /\ Len(df) = Len(listing)
        /\ {df[i].index : i \in 1..Len(df)} = 0..(Len(listing) - 1)
        /\ \A i \in 1..Len(df) :
                LET r == listing[df[i].index + 1]
                IN  /\ df[i].name = r.name
                    /\ df[i].updated_at = r.updated_at
                    /\ df[i].stars = IF "stargazers_count" \in DOMAIN r
                                     THEN r.stargazers_count ELSE 0
        /\ listing = <<>> => df = <<>>

(* A table of three rows, not in input order, from a listing in which two  *)
(* repositories without a star count share their updated_at                *)
C7_Witness ==
    /\ script = "table"
    /\ Len(listing) = 3
    /\ Len(df) = 3
    /\ df[1].index = 2
    /\ listing[1].updated_at = listing[2].updated_at
    /\ "stargazers_count" \notin DOMAIN listing[1]
    /\ "stargazers_count" \notin DOMAIN listing[2]

C7_WitnessEmpty == script = "table" /\ listing = <<>> /\ df = <<>>

(* C8: sorting the table again leaves it as it is, and the table is the    *)
(* one make_repo_dataframe gives for the listing, however often the sort   *)
(* was applied.                                                            *)
C8_SortIdempotent ==
    Tabulated =>
        /\ df = make_repo_dataframe(listing)
        /\ sort_values(df) = df

C8_Witness ==
    /\ script = "resorted"
    /\ Len(df) = 3
    /\ df[1].index = 1
    /\ df[2].stars = df[3].stars
    /\ df[2].updated_at = df[3].updated_at

-----------------------------------------------------------------------------
(* AppSpec: the Streamlit script, lines 97-206.  Every interaction reruns  *)
(* it from the top; the cache and st.session_state outlive a run.          *)

ScriptEnded == script \in {"none", "stopped", "done", "crashed"}

MaxClick == 1       \* rows whose "Get README" button is tried: 1..MaxClick

(* Lines 101-114: a rerun.  The form may have been submitted with a name,  *)
(* the checkbox has a value, at most one "Get README" button was clicked.  *)
ScriptRun(submitted, username_input, raw, click) ==
    /\ ScriptEnded
    /\ pc = "idle"
    /\ LET searched == IF submitted THEN username_input ELSE session.searched_user
       IN  /\ session' = [searched_user |-> searched, raw_readme |-> raw,
                          click |-> click]
           /\ IF searched = ""
              THEN script' = "stopped" /\ message' = "info"
              ELSE script' = "get_user" /\ message' = "none"
    /\ user' = None
    /\ listing' = <<>>
    /\ df' = <<>>
    /\ result' = NoResult
    /\ requests' = <<>>
    /\ responses' = <<>>
    /\ UNCHANGED <<clock, nrepos, cache, fetched, pc, call, page, repos>>

(* Lines 117-124: both handlers show an error and stop the run *)
ScriptGetUser(status) ==
    /\ script = "get_user"
    /\ GetUserStep(session.searched_user, status)
    /\ IF result'.kind = "return"
       THEN user' = result'.value /\ script' = "list" /\ UNCHANGED message
       ELSE user' = None /\ script' = "stopped" /\ message' = "error"
    /\ UNCHANGED <<session, listing, df>>

(* Lines 148-153 and on, once list_user_repos has ended: the table is made *)
(* of what it returned; requests.HTTPError is shown and stops the run; any *)
(* other exception has no handler and leaves the script.                   *)
AfterList(res) ==
    IF res.kind = "return"
    THEN LET table == make_repo_dataframe(res.value)
         IN  /\ listing' = res.value
             /\ df' = table
             /\ message' = IF table = <<>> THEN "No repositories found." ELSE message
             /\ script' = IF table = <<>> THEN "done"
                          ELSE IF session.click \in 1..Len(table) THEN "readme_button"
                          ELSE "readme_select"
    ELSE /\ UNCHANGED <<listing, df>>
         /\ IF res.exc = "HTTPError"
            THEN script' = "stopped" /\ message' = "error"
            ELSE script' = "crashed" /\ message' = "uncaught"

(* Line 149: repos = list_user_repos(username) *)
ScriptListRepos ==
    /\ script = "list"
    /\ pc = "idle"
    /\ ListUserReposStep(session.searched_user, DefaultPerPage)
    /\ IF pc' = "idle"
       THEN AfterList(result')
       ELSE UNCHANGED <<script, message, listing, df>>
    /\ UNCHANGED <<user, session>>

ScriptRequestPage ==
    /\ script = "list"
    /\ RequestPageStep
    /\ UNCHANGED appVars

ScriptReceivePage(status) ==
    /\ script = "list"
    /\ ReceivePageStep(status)
    /\ IF pc' = "idle"
       THEN AfterList(result')
       ELSE UNCHANGED <<script, message, listing, df>>
    /\ UNCHANGED <<user, session>>

(* Lines 177-185: the clicked row's README, any exception shown *)
ScriptReadmeButton(status) ==
    /\ script = "readme_button"
    /\ GetReadmeStep(user.login, df[session.click].name, session.raw_readme, status)
    /\ message' = IF result'.kind = "return" THEN "readme" ELSE "error"
    /\ script' = "readme_select"
    /\ UNCHANGED <<user, session, listing, df>>

(* Lines 188-206: the README of the selected repository, the first row     *)
(* unless the user chose another; HTTPError is a warning, anything else an *)
(* error.                                                                  *)
ScriptReadmeSelect(status) ==
    /\ script = "readme_select"
    /\ GetReadmeStep(user.login, df[1].name, session.raw_readme, status)
    /\ message' = IF result'.kind = "return" THEN "readme"
                  ELSE IF result'.exc = "HTTPError" THEN "warning" ELSE "error"
    /\ script' = "done"
    /\ UNCHANGED <<user, session, listing, df>>

AppTick == TickStep /\ UNCHANGED appVars

AppNext ==
    \/ \E submitted \in BOOLEAN, username_input \in Users \cup {""},
          raw \in BOOLEAN, click \in 0..MaxClick :
            ScriptRun(submitted, username_input, raw, click)
    \/ \E status \in Statuses : ScriptGetUser(status)
    \/ ScriptListRepos
    \/ ScriptRequestPage
    \/ \E status \in Statuses : ScriptReceivePage(status)
    \/ \E status \in Statuses \cup {"BadContent"} : ScriptReadmeButton(status)
    \/ \E status \in Statuses \cup {"BadContent"} : ScriptReadmeSelect(status)
    \/ AppTick

AppSpec == Init /\ [][AppNext]_vars

-----------------------------------------------------------------------------
(* Properties of the script *)

FetchFailed == CallCompleted /\ result.kind = "raise"

(* C10: no failure of a fetch leaves the script uncaught: each one is      *)
(* shown as a message, a failed get_user or list_user_repos stops the run, *)
(* and after a failed get_user there is no profile and no request for the  *)
(* repositories.                                                           *)
C10_EveryFetchFailureCaught ==
    /\ script # "crashed"
    /\ FetchFailed =>
        /\ message \in {"error", "warning"}
        /\ result.fn \in {"get_user", "list_user_repos"} => script = "stopped"
        /\ result.fn = "get_user" =>
                /\ user = None
                /\ \A i \in 1..Len(requests) : requests[i].endpoint # "repos"

(* What the script does do: HTTPError is caught everywhere, and every      *)
(* failure of get_user and get_readme is caught.                           *)
AppHandledFailures ==
    /\ script = "crashed" =>
            /\ result.fn = "list_user_repos"
            /\ result.exc # "HTTPError"
    /\ (FetchFailed /\ script # "crashed") =>
            /\ message \in {"error", "warning"}
            /\ result.fn \in {"get_user", "list_user_repos"} => script = "stopped"
            /\ result.fn = "get_user" =>
                    /\ user = None
                    /\ \A i \in 1..Len(requests) : requests[i].endpoint # "repos"

====
